---- MODULE Spec2Model ----
(***************************************************************************)
(* The simulation core of tower_defense_3D: main.js (game state, the       *)
(* command handlers and animate), Tower.js, Projectile.js, Enemy.js,       *)
(* WaveManager.js and Path.js.                                             *)
(*                                                                         *)
(* Units.  JavaScript numbers are modelled by integers in fixed units:     *)
(*   time      1/60 s   (deltaTime 6 = 0.1 s; 1/fireRate = 1/1.2 s = 50)   *)
(*   length    1/120    (15 -> 1800, 0.1 -> 12; speed 1.5/s -> 3 a frame)  *)
(*   health    1/100    (100 -> 10000; damage 30 * 1.2 = 36 -> 3600)        *)
(* Gold, lives, levels, counts and indices are the program's integers.     *)
(* Arrays are sequences (index 1 is the program's index 0).  An Enemy      *)
(* object outlives its removal from the enemies array for as long as a     *)
(* tower or projectile refers to it, so enemy objects live in a store      *)
(* (enemyObjects) keyed by an identity, and arrays and target fields hold  *)
(* identities; 0 is null.                                                  *)
(*                                                                         *)
(* Specifications.                                                         *)
(*   Spec             the game from its start: handlers and animate().     *)
(*   SpecWaveManager  a WaveManager driven directly, its times in frames   *)
(*                    or in IEEE-754 doubles (spawnTimer -= deltaTime is   *)
(*                    then rounded as JavaScript rounds it).               *)
(*   SpecCombat       the game in the middle of a wave: one tower and one  *)
(*                    standard enemy in its range.                         *)
(*   SpecLateGame     the game late in a wave: two towers, two enemies.    *)
(*   SpecTargeting    a Tower driven directly at the towers loop:          *)
(*                    findTarget and update on three enemies of the path.  *)
(*   SpecUpgrade      the upgrade panel: two towers, gold for up to four   *)
(*                    upgrades.                                            *)
(*   SpecForever      the late game with animate() called for ever, under  *)
(*                    weak fairness of the call and of its steps.          *)
(***************************************************************************)
EXTENDS Integers, Sequences, FiniteSets, TLC

\* ------------------------------------------------------------------ bounds

\* animate() calls explored while an enemy is on the path or awaits its
\* spawn (the calls made between waves and after the end change nothing but
\* cooldowns and are not counted).
MaxTicks == 8

\* Tower.upgrade has no level cap; the upgrade command is explored up to this
\* level.
MaxLevel == 4

\* playerGold and playerLives at start.  main.js starts with 100 and 20; the
\* explored match starts with these balances so that an upgrade and the loss
\* of the last life both occur within MaxTicks.
StartGold == 140

StartLives == 2

\* deltaTime values (clock.getDelta() is not clamped): 0.1 s, 4.75 s, 5 s.
\* In 5 s a fast enemy covers a whole path segment and a standard one half.
DtSet == {6, 285, 300}

\* Ground points a build click may hit: (0, 0, 10) and (10, 0, 10).
BuildSites == {<<0, 0, 1200>>, <<1200, 0, 1200>>}

\* update() calls made on a directly driven WaveManager per wave: 3.0 s of
\* ticks of 0.1 s.
MaxUpdates == 30

\* startNextWave() calls made on a directly driven WaveManager after its
\* last wave.
MaxRestarts == 2

\* ------------------------------------------------------- program constants

BASIC_TOWER_COST == 50

\* Path.js: the waypoints (y = 0.1).
waypoints ==
    << <<-1800, 12, 0>>, <<0, 12, 0>>, <<0, 12, 1800>>, <<1800, 12, 1800>> >>

\* WaveManager.js ENEMY_CONFIGS (speed in length units a frame, size = radius).
ENEMY_CONFIGS ==
    ("standard" :> [health |-> 10000, speed |-> 3, value |-> 10, size |-> 60]) @@
    ("fast"     :> [health |-> 5000,  speed |-> 6, value |-> 8,  size |-> 48]) @@
    ("tough"    :> [health |-> 25000, speed |-> 2, value |-> 20, size |-> 84])

\* The towerConfig main.js builds with: range 6, damage 30, fireRate 1.2
\* (fireRate in tenths), and the tower mesh height 1.5.
towerConfig ==
    [cost |-> BASIC_TOWER_COST, range |-> 720, damage |-> 3000, fireRate |-> 12,
     height |-> 180]

\* Tower.attack's projectileConfig: speed 20, size 0.1.
projectileConfig == [speed |-> 40, size |-> 12]

\* WaveManager.waveConfigs.  The program has three waves of 5, 8+3 and
\* 2+10+5 enemies; the explored templates keep its shape (waves of groups of
\* type, count, interval) with one enemy per group: two waves of one group,
\* and one wave of three groups.
WaveTemplates ==
    { << << [type |-> "fast", count |-> 1, interval |-> 90] >>,
         << [type |-> "fast", count |-> 1, interval |-> 42] >> >>,
      << << [type |-> "fast", count |-> 1, interval |-> 90],
            [type |-> "standard", count |-> 1, interval |-> 60],
            [type |-> "fast", count |-> 1, interval |-> 42] >> >> }

\* ----------------------------------------------------------- vector maths

RECURSIVE IsqrtIter(_, _, _)
IsqrtIter(n, lo, hi) ==
    IF lo >= hi THEN lo
    ELSE LET mid == (lo + hi + 1) \div 2
         IN IF mid * mid <= n THEN IsqrtIter(n, mid, hi)
            ELSE IsqrtIter(n, lo, mid - 1)

\* Vector3.length() of a vector with squared length n, rounded down.
Isqrt(n) == IsqrtIter(n, 0, 46340)

\* Vector3.subVectors(a, b).
SubVectors(a, b) == <<a[1] - b[1], a[2] - b[2], a[3] - b[3]>>

LengthSq(v) == v[1] * v[1] + v[2] * v[2] + v[3] * v[3]

\* Vector3.distanceToSquared.
DistanceToSquared(a, b) == LengthSq(SubVectors(a, b))

\* direction.normalize(); position.addScaledVector(direction, moveDistance):
\* each component moves by dir * moveDistance / |dir|, rounded to the unit.
AddScaledVector(pos, dir, moveDistance) ==
    LET len == Isqrt(LengthSq(dir))
    IN IF len = 0 THEN pos
       ELSE [k \in 1..3 |-> pos[k] + (dir[k] * moveDistance) \div len]

RECURSIVE Pow(_, _)
Pow(b, e) == IF e = 0 THEN 1 ELSE b * Pow(b, e - 1)

\* floor(a * b / c) without forming a * b.
MulDiv(a, b, c) == a * (b \div c) + (a * (b % c)) \div c

\* ------------------------------------------------------------------ Enemy

\* new Enemy(path, scene, config): the mesh starts at the first waypoint.
NewEnemy(config) ==
    [health |-> config.health, speed |-> config.speed, value |-> config.value,
     size |-> config.size, currentWaypointIndex |-> 0,
     position |-> waypoints[1], mesh |-> TRUE]

\* A death test that gives way to arrival: an enemy at the end of the path
\* does not count as dead.
isDeadOnThePath(e) ==
    e.health <= 0 /\ e.currentWaypointIndex < Len(waypoints)

isDead(e) == e.health <= 0

hasReachedEnd(e) == e.currentWaypointIndex >= Len(waypoints)

takeDamage(e, amount) == [e EXCEPT !.health = @ - amount]

\* An update that spends the step left over at a waypoint on the next
\* segment.
RECURSIVE EnemyUpdateCarry(_, _)
EnemyUpdateCarry(e, deltaTime) ==
    IF ~e.mesh \/ e.currentWaypointIndex >= Len(waypoints) THEN e
    ELSE LET targetWaypoint == waypoints[e.currentWaypointIndex + 1]
             direction == SubVectors(targetWaypoint, e.position)
             moveDistance == e.speed * deltaTime
         IN IF moveDistance * moveDistance >= LengthSq(direction)
            THEN EnemyUpdateCarry(
                     [e EXCEPT !.position = targetWaypoint,
                               !.currentWaypointIndex = @ + 1],
                     deltaTime - Isqrt(LengthSq(direction)) \div e.speed)
            ELSE [e EXCEPT !.position =
                               AddScaledVector(@, direction, moveDistance)]

\* Enemy.update(deltaTime).
EnemyUpdate(e, deltaTime) ==
    IF ~e.mesh \/ hasReachedEnd(e) THEN e
    ELSE LET targetWaypoint == waypoints[e.currentWaypointIndex + 1]
             direction == SubVectors(targetWaypoint, e.position)
             moveDistance == e.speed * deltaTime
         IN IF moveDistance * moveDistance >= LengthSq(direction)
            THEN [e EXCEPT !.position = targetWaypoint,
                           !.currentWaypointIndex = @ + 1]
            ELSE [e EXCEPT !.position =
                               AddScaledVector(@, direction, moveDistance)]

\* Enemy.dispose(): the mesh becomes null.
EnemyDispose(e) == [e EXCEPT !.mesh = FALSE]

\* ------------------------------------------------------------------ Tower

\* baseDamage * Math.pow(1.2, level - 1).
DamageAt(baseDamage, level) ==
    MulDiv(baseDamage, Pow(12, level - 1), Pow(10, level - 1))

\* range * range for range = baseRange * Math.pow(1.1, level - 1), rounded
\* down (it is compared with squared distances, which are integers).
RangeSqAt(baseRange, level) ==
    IF level = 1 THEN baseRange * baseRange
    ELSE MulDiv((baseRange * baseRange) \div 100, Pow(121, level - 1),
                Pow(100, level - 2))

\* new Tower(position, scene, projectilesArray, config); meshPosition is
\* mesh.position, half the mesh height above position.
NewTower(position, config) ==
    [cost |-> config.cost, position |-> position,
     meshPosition |-> <<position[1], position[2] + config.height \div 2,
                        position[3]>>,
     height |-> config.height,
     level |-> 1, baseDamage |-> config.damage, baseRange |-> config.range,
     fireRate |-> config.fireRate,
     damage |-> config.damage, rangeSq |-> config.range * config.range,
     currentTarget |-> 0, fireCooldown |-> 0]

\* An upgrade charged at the build cost.
getBuildCost(t) == t.cost

\* An upgrade priced with the level the upgrade leads to.
getCostOfNextLevel(t) ==
    MulDiv(t.cost, Pow(18, t.level + 1), Pow(10, t.level + 1))

\* Math.floor(this.cost * Math.pow(1.8, this.level)).
getUpgradeCost(t) == MulDiv(t.cost, Pow(18, t.level), Pow(10, t.level))

\* Tower.upgrade().
upgrade(t) ==
    [t EXCEPT !.level = @ + 1,
              !.damage = DamageAt(t.baseDamage, t.level + 1),
              !.rangeSq = RangeSqAt(t.baseRange, t.level + 1)]

\* The tower's range test on an enemy object (which has a mesh).
InRange(t, e) == DistanceToSquared(t.meshPosition, e.position) <= t.rangeSq

\* A scan that takes the nearest enemy in range instead of the first one (the
\* assignment to closestDistanceSq enabled and the break removed).
NearestInRange(t, enemiesArray, objs) ==
    LET ok == {k \in 1..Len(enemiesArray) :
                   /\ ~isDead(objs[enemiesArray[k]])
                   /\ InRange(t, objs[enemiesArray[k]])}
        d(k) == DistanceToSquared(t.meshPosition,
                                  objs[enemiesArray[k]].position)
    IN IF ok = {} THEN 0
       ELSE enemiesArray[CHOOSE k \in ok :
                             \A j \in ok : d(k) < d(j)
                                            \/ (d(k) = d(j) /\ k >= j)]

\* The loop of Tower.findTarget: the first enemy of the array, in its
\* order, that is not dead and is in range; 0 if there is none.
RECURSIVE FirstInRange(_, _, _)
FirstInRange(t, enemiesArray, objs) ==
    IF enemiesArray = <<>> THEN 0
    ELSE LET e == objs[Head(enemiesArray)]
         IN IF ~isDead(e) /\ InRange(t, e) THEN Head(enemiesArray)
            ELSE FirstInRange(t, Tail(enemiesArray), objs)

\* A findTarget without the range test: the first enemy that is not dead.
RECURSIVE FirstAlive(_, _, _)
FirstAlive(t, enemiesArray, objs) ==
    IF enemiesArray = <<>> THEN 0
    ELSE IF ~isDead(objs[Head(enemiesArray)]) THEN Head(enemiesArray)
    ELSE FirstAlive(t, Tail(enemiesArray), objs)

\* Tower.findTarget(enemies): the new currentTarget (the scan, then the
\* method's own re-validation of what the scan found).
findTarget(t, enemiesArray, objs) ==
    LET found == FirstInRange(t, enemiesArray, objs)
    IN IF found # 0 /\ (isDead(objs[found]) \/ ~InRange(t, objs[found]))
       THEN 0 ELSE found

\* Tower.update reads currentTarget.mesh.position of a target that is not
\* dead; a disposed target has mesh = null and the read throws a TypeError.
TowerUpdateThrows(t, objs) ==
    /\ t.currentTarget # 0
    /\ ~isDead(objs[t.currentTarget])
    /\ ~objs[t.currentTarget].mesh

\* A cooldown that is counted down only while the tower has a target.
CooldownWhileEngaged(t, deltaTime) ==
    IF t.fireCooldown > 0 /\ t.currentTarget # 0
    THEN t.fireCooldown - deltaTime ELSE t.fireCooldown

\* The cooldown step of Tower.update.
CooldownAfter(t, deltaTime) ==
    IF t.fireCooldown > 0 THEN t.fireCooldown - deltaTime ELSE t.fireCooldown

\* currentTarget at Tower.update's attack decision: kept if still valid,
\* otherwise what findTarget finds.
TargetAfterValidation(t, enemiesArray, objs) ==
    IF \/ t.currentTarget = 0
       \/ isDead(objs[t.currentTarget])
       \/ ~InRange(t, objs[t.currentTarget])
    THEN findTarget(t, enemiesArray, objs)
    ELSE t.currentTarget

\* A projectile that carries the tower's base damage whatever its level.
NewProjectileBase(t, target) ==
    [position |-> <<t.meshPosition[1],
                    t.meshPosition[2] + t.height \div 2 + 12,
                    t.meshPosition[3]>>,
     targetEnemy |-> target, speed |-> projectileConfig.speed,
     size |-> projectileConfig.size, damage |-> t.baseDamage]

\* The projectile Tower.attack creates, just above the top of the mesh.
NewProjectile(t, target) ==
    [position |-> <<t.meshPosition[1],
                    t.meshPosition[2] + t.height \div 2 + 12,
                    t.meshPosition[3]>>,
     targetEnemy |-> target, speed |-> projectileConfig.speed,
     size |-> projectileConfig.size, damage |-> t.damage]

\* Tower.attack(target): [tower, fired]; firing resets the cooldown to
\* 1 / fireRate.
attack(t, target, objs) ==
    IF target = 0 \/ isDead(objs[target])
    THEN [tower |-> [t EXCEPT !.currentTarget = 0], fired |-> FALSE]
    ELSE [tower |-> [t EXCEPT !.fireCooldown = 600 \div t.fireRate],
          fired |-> TRUE]

\* Tower.update(deltaTime, enemies) when it does not throw: [tower, fired].
TowerUpdate(t, deltaTime, enemiesArray, objs) ==
    LET t1 == [t EXCEPT !.fireCooldown = CooldownAfter(t, deltaTime),
                        !.currentTarget =
                            TargetAfterValidation(t, enemiesArray, objs)]
    IN IF t1.currentTarget # 0 /\ t1.fireCooldown <= 0
       THEN attack(t1, t1.currentTarget, objs)
       ELSE [tower |-> t1, fired |-> FALSE]

\* ------------------------------------------------------------- Projectile

\* Projectile.update reads targetEnemy.mesh.position of a target that is not
\* dead; a disposed target has mesh = null and the read throws a TypeError.
ProjectileUpdateThrows(p, objs) ==
    /\ p.targetEnemy # 0
    /\ ~isDead(objs[p.targetEnemy])
    /\ ~objs[p.targetEnemy].mesh

\* A projectile that damages its target and flies on: the hit is reported as
\* MOVING.
ProjectileUpdatePiercing(p, deltaTime, objs) ==
    IF p.targetEnemy = 0 \/ isDead(objs[p.targetEnemy])
    THEN [status |-> "INVALID_TARGET", projectile |-> p, damaged |-> FALSE]
    ELSE LET target == objs[p.targetEnemy]
             direction == SubVectors(target.position, p.position)
             moveDistance == p.speed * deltaTime
             hitThreshold == target.size + p.size
         IN [status |-> "MOVING",
             projectile |->
                 [p EXCEPT !.position =
                      AddScaledVector(@, direction, moveDistance)],
             damaged |-> \/ LengthSq(direction) <= moveDistance * moveDistance
                         \/ LengthSq(direction) <= hitThreshold * hitThreshold]

\* Projectile.update(deltaTime) when it does not throw:
\* [status, projectile, damaged]; damaged says that takeDamage(this.damage)
\* was called on the target.
ProjectileUpdate(p, deltaTime, objs) ==
    IF p.targetEnemy = 0 \/ isDead(objs[p.targetEnemy])
    THEN [status |-> "INVALID_TARGET", projectile |-> p, damaged |-> FALSE]
    ELSE LET target == objs[p.targetEnemy]
             direction == SubVectors(target.position, p.position)
             distanceSq == LengthSq(direction)
             moveDistance == p.speed * deltaTime
             hitThreshold == target.size + p.size
         IN IF \/ distanceSq <= moveDistance * moveDistance
               \/ distanceSq <= hitThreshold * hitThreshold
            THEN [status |-> "HIT_TARGET", projectile |-> p,
                  damaged |-> TRUE]
            ELSE [status |-> "MOVING",
                  projectile |->
                      [p EXCEPT !.position =
                           AddScaledVector(@, direction, moveDistance)],
                  damaged |-> FALSE]

\* ------------------------------------------------------------ WaveManager

\* The times of a WaveManager (spawnTimer, interval, deltaTime) are kept in
\* one of two number systems, named by the manager's field number:
\*   "frames"  whole sixtieths of a second, subtracted exactly;
\*   "double"  IEEE-754 binary64, as JavaScript computes: a record
\*             [neg, hi, lo] of magnitude (hi * 2^28 + lo) * 2^-56, with
\*             every difference rounded to 53 significant bits, ties to even.

\* 2^28, the weight of the high limb of a double's magnitude.
Limb == Pow(2, 28)

\* The spacing of the doubles around a magnitude with high limb hi, in units
\* of 2^-56: a magnitude below 2^53 units is exact, and each further bit
\* doubles the spacing.
RECURSIVE Quantum(_)
Quantum(hi) == IF hi < Pow(2, 25) THEN 1 ELSE 2 * Quantum(hi \div 2)

\* Rounding of the exact magnitude (hi, lo) to the nearest double, ties to
\* the even mantissa.
RoundToDouble(neg, hi, lo) ==
    LET q == Quantum(hi)
        r == lo % q
        down == lo - r
        up == \/ 2 * r > q
              \/ 2 * r = q /\ (down \div q) % 2 = 1
        lo1 == IF up THEN down + q ELSE down
    IN IF lo1 >= Limb
       THEN [neg |-> neg, hi |-> hi + 1, lo |-> lo1 - Limb]
       ELSE [neg |-> neg /\ (hi > 0 \/ lo1 > 0), hi |-> hi, lo |-> lo1]

\* |a| >= |b|.
MagnitudeGeq(a, b) == a.hi > b.hi \/ (a.hi = b.hi /\ a.lo >= b.lo)

\* a - b on doubles.
DoubleMinus(a, b) ==
    IF a.neg # b.neg
    THEN LET lo == a.lo + b.lo
         IN RoundToDouble(a.neg, a.hi + b.hi + lo \div Limb, lo % Limb)
    ELSE LET x == IF MagnitudeGeq(a, b) THEN a ELSE b
             y == IF MagnitudeGeq(a, b) THEN b ELSE a
             borrow == IF x.lo < y.lo THEN 1 ELSE 0
         IN RoundToDouble(IF MagnitudeGeq(a, b) THEN a.neg ELSE ~a.neg,
                          x.hi - y.hi - borrow,
                          x.lo - y.lo + borrow * Limb)

\* The number 0 of a number system.
TimeZero(number) ==
    IF number = "frames" THEN 0 ELSE [neg |-> FALSE, hi |-> 0, lo |-> 0]

\* a - b in a number system.
TimeMinus(number, a, b) ==
    IF number = "frames" THEN a - b ELSE DoubleMinus(a, b)

\* a < 0 in a number system.
TimeIsPast(number, a) ==
    IF number = "frames" THEN a < 0 ELSE a.neg

\* a <= 0 in a number system.
TimeIsDue(number, a) ==
    IF number = "frames" THEN a <= 0 ELSE a.neg \/ (a.hi = 0 /\ a.lo = 0)

\* A wave number that counts from 2.
getNextWaveNumber(wm) == wm.currentWaveIndex + 2

\* new WaveManager(scene, path, enemiesArray).
NewWaveManager(number, configs) ==
    [number |-> number, waveConfigs |-> configs, currentWaveIndex |-> -1,
     spawnTimer |-> TimeZero(number), enemiesToSpawn |-> <<>>,
     activeWave |-> FALSE]

getCurrentWaveNumber(wm) == wm.currentWaveIndex + 1

\* WaveManager.startNextWave() past its activeWave test: [wm, ret].
\* JSON.parse(JSON.stringify(enemies)) copies the groups by value, and a
\* sequence of records is a value.
StartWave(wm) ==
    LET index == wm.currentWaveIndex + 1
    IN IF index >= Len(wm.waveConfigs)
       THEN [wm |-> [wm EXCEPT !.currentWaveIndex = index],
             ret |-> "GAME_WON"]
       ELSE [wm |-> [wm EXCEPT !.currentWaveIndex = index,
                               !.enemiesToSpawn = wm.waveConfigs[index + 1],
                               !.spawnTimer = TimeZero(wm.number),
                               !.activeWave = TRUE],
             ret |-> "WAVE_STARTED"]

\* A start without the activeWave test.
StartWaveAlways(wm) == StartWave(wm)

\* WaveManager.startNextWave(): [wm, ret].
startNextWave(wm) ==
    IF wm.activeWave THEN [wm |-> wm, ret |-> "WAVE_ACTIVE"]
    ELSE StartWave(wm)

\* A completion check that forgets the enemies still on the path.
QueueIsEmpty(queue, numEnemies) == Len(queue) = 0

\* The completion check of WaveManager.update.
WaveIsComplete(queue, numEnemies) == Len(queue) = 0 /\ numEnemies = 0

\* WaveManager.update(deltaTime) past its activeWave test: the spawn step and
\* the completion check.
WaveManagerUpdateActive(wm, deltaTime, numEnemies) ==
    LET timer == TimeMinus(wm.number, wm.spawnTimer, deltaTime)
        wm1 == [wm EXCEPT !.spawnTimer = timer]
        complete(w, n) ==
            IF WaveIsComplete(w.enemiesToSpawn, n)
            THEN [wm |-> [w EXCEPT !.activeWave = FALSE],
                  ret |-> "WAVE_COMPLETE"]
            ELSE [wm |-> w, ret |-> "null"]
    IN IF TimeIsDue(wm.number, timer) /\ Len(wm.enemiesToSpawn) > 0
       THEN LET spawnInfo == Head(wm.enemiesToSpawn)
            IN IF spawnInfo.type \notin DOMAIN ENEMY_CONFIGS
               THEN [wm |-> [wm1 EXCEPT !.enemiesToSpawn = Tail(@)],
                     spawn |-> "", ret |-> "null"]
               ELSE
                 LET count == spawnInfo.count - 1
                     rest == Tail(wm.enemiesToSpawn)
                     queue == IF count <= 0 THEN rest
                              ELSE <<[spawnInfo EXCEPT !.count = count]>>
                                   \o rest
                     nextTimer ==
                         IF count <= 0 /\ Len(rest) > 0
                         THEN rest[1].interval ELSE spawnInfo.interval
                     wm2 == [wm1 EXCEPT !.enemiesToSpawn = queue,
                                        !.spawnTimer = nextTimer]
                     c == complete(wm2, numEnemies + 1)
                 IN [wm |-> c.wm, spawn |-> spawnInfo.type, ret |-> c.ret]
       ELSE LET c == complete(wm1, numEnemies)
            IN [wm |-> c.wm, spawn |-> "", ret |-> c.ret]

\* An update whose spawn queue is the template wave itself (a start that
\* did not copy): the decrements and removals show in the template.
WaveManagerUpdateShared(wm, deltaTime, numEnemies) ==
    IF ~wm.activeWave THEN [wm |-> wm, spawn |-> "", ret |-> "null"]
    ELSE LET r == WaveManagerUpdateActive(wm, deltaTime, numEnemies)
         IN [r EXCEPT !.wm.waveConfigs[wm.currentWaveIndex + 1] =
                          r.wm.enemiesToSpawn]

\* An update that leaves spawnTimer at the interval of the group it spawned
\* from, also when that group is exhausted and another one follows.
WaveManagerUpdateSameTimer(wm, deltaTime, numEnemies) ==
    IF ~wm.activeWave THEN [wm |-> wm, spawn |-> "", ret |-> "null"]
    ELSE LET r == WaveManagerUpdateActive(wm, deltaTime, numEnemies)
         IN IF r.spawn = "" THEN r
            ELSE [r EXCEPT !.wm.spawnTimer = Head(wm.enemiesToSpawn).interval]

\* An update that waits at a group of unknown type instead of removing it.
WaveManagerUpdateStalling(wm, deltaTime, numEnemies) ==
    IF ~wm.activeWave THEN [wm |-> wm, spawn |-> "", ret |-> "null"]
    ELSE IF /\ Len(wm.enemiesToSpawn) > 0
            /\ Head(wm.enemiesToSpawn).type \notin DOMAIN ENEMY_CONFIGS
    THEN [wm |-> [wm EXCEPT !.spawnTimer =
                                TimeMinus(wm.number, @, deltaTime)],
          spawn |-> "", ret |-> "null"]
    ELSE WaveManagerUpdateActive(wm, deltaTime, numEnemies)

\* An update without the activeWave test.
WaveManagerUpdateAlways(wm, deltaTime, numEnemies) ==
    WaveManagerUpdateActive(wm, deltaTime, numEnemies)

\* WaveManager.update(deltaTime): [wm, spawn, ret]; spawn is the enemy type
\* pushed onto the enemies array ("" if none), numEnemies the array's length
\* before the call.
WaveManagerUpdate(wm, deltaTime, numEnemies) ==
    IF ~wm.activeWave THEN [wm |-> wm, spawn |-> "", ret |-> "null"]
    ELSE WaveManagerUpdateActive(wm, deltaTime, numEnemies)

\* ------------------------------------------------------------------ state

VARIABLES
    gameStatus,         \* main.js gameStatus
    playerGold,         \* main.js playerGold
    playerLives,        \* main.js playerLives
    currentWaveNumber,  \* main.js currentWaveNumber
    buildMode,          \* main.js buildMode
    selectedTower,      \* main.js selectedTower: an index of towers, 0 = null
    towers,             \* main.js towers: a sequence of tower objects
    projectiles,        \* main.js projectiles: a sequence of projectile objects
    enemies,            \* main.js enemies: a sequence of enemy identities
    enemyObjects,       \* every Enemy constructed so far, by identity
    waveManager,        \* the WaveManager object
    pc,                 \* where animate() is: "idle" between calls, else its loop
    i,                  \* the index of the running loop of animate()
    deltaTime,          \* animate's deltaTime
    waveStatus,         \* animate's waveStatus, of the latest call
    threw,              \* the latest animate() ended in an uncaught TypeError
    tickCount,          \* animate() calls made while Simulating
    afterEnd,           \* the handler that ran last since the game ended
    credits,            \* per enemy identity, how often its value was credited
    returned,           \* what the latest direct call of a WaveManager
                        \* method returned ("none" before any)
    spawnedAt           \* the update calls, counted from the start of the
                        \* wave, in which a directly driven WaveManager
                        \* pushed an enemy

vars ==
    <<gameStatus, playerGold, playerLives, currentWaveNumber, buildMode,
      selectedTower, towers, projectiles, enemies, enemyObjects, waveManager,
      pc, i, deltaTime, waveStatus, threw, tickCount, afterEnd, credits,
      returned, spawnedAt>>

\* What the game never touches: the record of the direct calls.
callVars == <<returned, spawnedAt>>

\* What the commands leave alone.
simVars ==
    <<towers, projectiles, enemies, enemyObjects, pc, i, deltaTime,
      waveStatus, threw, tickCount, credits>>

\* An end-of-game test that forgets GAME_OVER.
OnlyGameWon == gameStatus = "GAME_WON"

\* The end-of-game test of animate and of the handlers.
GameEnded == gameStatus = "GAME_OVER" \/ gameStatus = "GAME_WON"

\* An enemy is on the path or awaits its spawn, and the game has not ended.
Simulating ==
    /\ ~GameEnded
    /\ Len(enemies) > 0 \/ Len(waveManager.enemiesToSpawn) > 0

\* A removal that removes nothing.
KeepAll(seq, k) == seq

\* array.splice(k, 1).
Splice(seq, k) == SubSeq(seq, 1, k - 1) \o SubSeq(seq, k + 1, Len(seq))

\* The state after construction (main.js lines 10-20, 69, 73).
Init ==
    /\ gameStatus = "IDLE"
    /\ playerGold = StartGold
    /\ playerLives = StartLives
    /\ currentWaveNumber = 0
    /\ buildMode = FALSE
    /\ selectedTower = 0
    /\ towers = <<>>
    /\ projectiles = <<>>
    /\ enemies = <<>>
    /\ enemyObjects = <<>>
    /\ \E configs \in WaveTemplates :
           waveManager = NewWaveManager("frames", configs)
    /\ pc = "idle"
    /\ i = 0
    /\ deltaTime = 0
    /\ waveStatus = "null"
    /\ threw = FALSE
    /\ tickCount = 0
    /\ afterEnd = "none"
    /\ credits = <<>>
    /\ returned = "none"
    /\ spawnedAt = <<>>

\* --------------------------------------------------------------- commands

\* A gold test that only asks for some gold.
HasGold(gold, cost) == gold > 0

\* The gold test of the build button, of the build click and of the upgrade
\* button: playerGold >= cost.
CanAfford(gold, cost) == gold >= cost

\* buildTurretButton click.
BuildTurretButton ==
    /\ pc = "idle"
    /\ UNCHANGED callVars
    /\ afterEnd' = IF GameEnded THEN "buildButton" ELSE afterEnd
    /\ IF CanAfford(playerGold, BASIC_TOWER_COST) /\ ~buildMode /\ ~GameEnded
       THEN buildMode' = TRUE /\ selectedTower' = 0
       ELSE UNCHANGED <<buildMode, selectedTower>>
    /\ UNCHANGED <<gameStatus, playerGold, playerLives, currentWaveNumber,
                   waveManager>>
    /\ UNCHANGED simVars

\* canvas pointerdown in build mode; ground is the point of the ground plane
\* the ray hits, <<>> if it misses the plane.
CanvasBuild(ground) ==
    IF ground = <<>> THEN UNCHANGED <<playerGold, towers, buildMode>>
    ELSE IF CanAfford(playerGold, BASIC_TOWER_COST)
    THEN /\ playerGold' = playerGold - BASIC_TOWER_COST
         /\ towers' = Append(towers, NewTower(ground, towerConfig))
         /\ buildMode' = FALSE
    ELSE /\ buildMode' = FALSE
         /\ UNCHANGED <<playerGold, towers>>

\* canvas pointerdown outside build mode; hit is the tower whose mesh the ray
\* hits first, 0 if it hits none.
CanvasSelect(hit) == selectedTower' = hit

\* canvas pointerdown.
CanvasPointerDown ==
    /\ pc = "idle"
    /\ UNCHANGED callVars
    /\ afterEnd' = IF GameEnded THEN "pointerdown" ELSE afterEnd
    /\ IF GameEnded
       THEN UNCHANGED <<playerGold, towers, buildMode, selectedTower>>
       ELSE IF buildMode
       THEN /\ \E ground \in BuildSites \cup {<<>>} : CanvasBuild(ground)
            /\ UNCHANGED selectedTower
       ELSE /\ \E hit \in 0..Len(towers) : CanvasSelect(hit)
            /\ UNCHANGED <<playerGold, towers, buildMode>>
    /\ UNCHANGED <<gameStatus, playerLives, currentWaveNumber, waveManager,
                   projectiles, enemies, enemyObjects, pc, i, deltaTime,
                   waveStatus, threw, tickCount, credits>>

\* upgradeButton click.  The level cap is the exploration's, not the
\* program's.
UpgradeButton ==
    /\ pc = "idle"
    /\ UNCHANGED callVars
    /\ selectedTower # 0 => towers[selectedTower].level < MaxLevel
    /\ afterEnd' = IF GameEnded THEN "upgradeButton" ELSE afterEnd
    /\ IF selectedTower # 0 /\ ~GameEnded
          /\ CanAfford(playerGold, getUpgradeCost(towers[selectedTower]))
       THEN /\ playerGold' = playerGold - getUpgradeCost(towers[selectedTower])
            /\ towers' = [towers EXCEPT ![selectedTower] = upgrade(@)]
       ELSE UNCHANGED <<playerGold, towers>>
    /\ UNCHANGED <<gameStatus, playerLives, currentWaveNumber, waveManager,
                   buildMode, selectedTower, projectiles, enemies,
                   enemyObjects, pc, i, deltaTime, waveStatus, threw,
                   tickCount, credits>>

\* closeUpgradeButton click.
CloseUpgradeButton ==
    /\ pc = "idle"
    /\ UNCHANGED callVars
    /\ afterEnd' = IF GameEnded THEN "closeButton" ELSE afterEnd
    /\ selectedTower' = 0
    /\ UNCHANGED <<gameStatus, playerGold, playerLives, currentWaveNumber,
                   waveManager, buildMode>>
    /\ UNCHANGED simVars

\* startWaveButton click.
StartWaveButton ==
    /\ pc = "idle"
    /\ UNCHANGED callVars
    /\ afterEnd' = IF GameEnded THEN "startButton" ELSE afterEnd
    /\ IF gameStatus = "IDLE" \/ gameStatus = "WAVE_COMPLETE"
       THEN LET waveResult == startNextWave(waveManager)
            IN /\ waveManager' = waveResult.wm
               /\ IF waveResult.ret = "WAVE_STARTED"
                  THEN /\ gameStatus' = "WAVE_ACTIVE"
                       /\ currentWaveNumber' =
                              getCurrentWaveNumber(waveResult.wm)
                  ELSE IF waveResult.ret = "GAME_WON"
                  THEN /\ gameStatus' = "GAME_WON"
                       /\ UNCHANGED currentWaveNumber
                  ELSE UNCHANGED <<gameStatus, currentWaveNumber>>
       ELSE UNCHANGED <<gameStatus, currentWaveNumber, waveManager>>
    /\ UNCHANGED <<playerGold, playerLives, buildMode, selectedTower>>
    /\ UNCHANGED simVars

\* ---------------------------------------------------------------- animate

\* Where animate() continues: the towers loop from index k, else the
\* projectiles loop from its last index, else the enemies loop from its last
\* index, else the end of the call ("idle").
AfterEnemies(k) == IF k >= 1 THEN <<"enemies", k>> ELSE <<"idle", 0>>

AfterProjectiles(k, en) ==
    IF k >= 1 THEN <<"projectiles", k>> ELSE AfterEnemies(Len(en))

AfterTowers(k, tw, pr, en) ==
    IF k <= Len(tw) THEN <<"towers", k>> ELSE AfterProjectiles(Len(pr), en)

\* A game over that does not return: the enemies loop goes on.
ContinueLoop(k) == AfterEnemies(k)

\* The return of animate() on game over, from pass k of the enemies loop.
AfterGameOver(k) == <<"idle", 0>>

\* A lives test that misses the last life.
LivesBelowZero(lives) == lives < 0

\* animate()'s test after playerLives--.
LivesExhausted(lives) == lives <= 0

\* animate() moves on to position at, a pair <<pc, i>>.
Goto(at) ==
    /\ pc' = at[1]
    /\ i' = at[2]
    /\ IF at[1] = "idle" THEN deltaTime' = 0 ELSE UNCHANGED deltaTime

\* An uncaught TypeError ends the call.
Throw ==
    /\ threw' = TRUE
    /\ pc' = "idle"
    /\ i' = 0
    /\ deltaTime' = 0

\* animate() up to the towers loop: the end-of-game return, or clock.getDelta()
\* = dt and step 1, waveManager.update.
AnimateBegin(dt) ==
    /\ pc = "idle"
    /\ UNCHANGED callVars
    /\ Simulating => tickCount < MaxTicks
    /\ tickCount' = IF Simulating THEN tickCount + 1 ELSE tickCount
    /\ afterEnd' = IF GameEnded THEN "animate" ELSE afterEnd
    /\ IF GameEnded
       THEN UNCHANGED <<gameStatus, waveManager, enemies, enemyObjects,
                        credits, pc, i, deltaTime, waveStatus, threw>>
       ELSE LET r == WaveManagerUpdate(waveManager, dt, Len(enemies))
                en == IF r.spawn = "" THEN enemies
                      ELSE Append(enemies, Len(enemyObjects) + 1)
            IN /\ waveManager' = r.wm
               /\ waveStatus' = r.ret
               /\ enemies' = en
               /\ IF r.spawn = ""
                  THEN UNCHANGED <<enemyObjects, credits>>
                  ELSE /\ enemyObjects' =
                              Append(enemyObjects,
                                     NewEnemy(ENEMY_CONFIGS[r.spawn]))
                       /\ credits' = Append(credits, 0)
               /\ gameStatus' = IF r.ret = "WAVE_COMPLETE"
                                THEN "WAVE_COMPLETE" ELSE gameStatus
               /\ threw' = FALSE
               /\ pc' = AfterTowers(1, towers, projectiles, en)[1]
               /\ i' = AfterTowers(1, towers, projectiles, en)[2]
               /\ deltaTime' = IF pc' = "idle" THEN 0 ELSE dt
    /\ UNCHANGED <<playerGold, playerLives, currentWaveNumber, buildMode,
                   selectedTower, towers, projectiles>>

\* One pass of the towers loop: towers[i].update(deltaTime, enemies).
TowerStep ==
    /\ pc = "towers"
    /\ UNCHANGED callVars
    /\ IF TowerUpdateThrows(towers[i], enemyObjects)
       THEN /\ towers' = [towers EXCEPT
                             ![i].fireCooldown =
                                 CooldownAfter(towers[i], deltaTime)]
            /\ Throw
            /\ UNCHANGED projectiles
       ELSE LET r == TowerUpdate(towers[i], deltaTime, enemies, enemyObjects)
                pr == IF r.fired
                      THEN Append(projectiles,
                                  NewProjectile(r.tower, r.tower.currentTarget))
                      ELSE projectiles
            IN /\ towers' = [towers EXCEPT ![i] = r.tower]
               /\ projectiles' = pr
               /\ Goto(AfterTowers(i + 1, towers, pr, enemies))
               /\ UNCHANGED threw
    /\ UNCHANGED <<gameStatus, playerGold, playerLives, currentWaveNumber,
                   buildMode, selectedTower, enemies, enemyObjects,
                   waveManager, waveStatus, tickCount, afterEnd, credits>>

\* One pass of the projectiles loop: projectiles[i].update(deltaTime), and
\* the removal of a projectile that hit or has no valid target.
ProjectileStep ==
    /\ pc = "projectiles"
    /\ UNCHANGED callVars
    /\ IF ProjectileUpdateThrows(projectiles[i], enemyObjects)
       THEN /\ Throw
            /\ UNCHANGED <<projectiles, enemyObjects>>
       ELSE LET p == projectiles[i]
                r == ProjectileUpdate(p, deltaTime, enemyObjects)
            IN /\ enemyObjects' =
                      IF r.damaged
                      THEN [enemyObjects EXCEPT
                               ![p.targetEnemy] = takeDamage(@, p.damage)]
                      ELSE enemyObjects
               /\ projectiles' =
                      IF r.status = "HIT_TARGET" \/ r.status = "INVALID_TARGET"
                      THEN Splice(projectiles, i)
                      ELSE [projectiles EXCEPT ![i] = r.projectile]
               /\ Goto(AfterProjectiles(i - 1, enemies))
               /\ UNCHANGED threw
    /\ UNCHANGED <<gameStatus, playerGold, playerLives, currentWaveNumber,
                   buildMode, selectedTower, towers, enemies, waveManager,
                   waveStatus, tickCount, afterEnd, credits>>

\* One pass of the enemies loop: enemies[i].update(deltaTime), then the
\* reward for a dead enemy or the life lost for one at the end of the path.
EnemyStep ==
    /\ pc = "enemies"
    /\ UNCHANGED callVars
    /\ LET id == enemies[i]
           e == EnemyUpdate(enemyObjects[id], deltaTime)
       IN IF isDead(e)
          THEN /\ playerGold' = playerGold + e.value
               /\ credits' = [credits EXCEPT ![id] = @ + 1]
               /\ enemyObjects' = [enemyObjects EXCEPT ![id] = EnemyDispose(e)]
               /\ enemies' = Splice(enemies, i)
               /\ Goto(AfterEnemies(i - 1))
               /\ UNCHANGED <<playerLives, gameStatus>>
          ELSE IF hasReachedEnd(e)
          THEN IF LivesExhausted(playerLives - 1)
               THEN /\ playerLives' = 0
                    /\ gameStatus' = "GAME_OVER"
                    /\ enemyObjects' = [enemyObjects EXCEPT ![id] = e]
                    /\ Goto(AfterGameOver(i - 1))
                    /\ UNCHANGED <<playerGold, credits, enemies>>
               ELSE /\ playerLives' = playerLives - 1
                    /\ enemyObjects' =
                           [enemyObjects EXCEPT ![id] = EnemyDispose(e)]
                    /\ enemies' = Splice(enemies, i)
                    /\ Goto(AfterEnemies(i - 1))
                    /\ UNCHANGED <<playerGold, credits, gameStatus>>
          ELSE /\ enemyObjects' = [enemyObjects EXCEPT ![id] = e]
               /\ Goto(AfterEnemies(i - 1))
               /\ UNCHANGED <<playerGold, credits, playerLives, gameStatus,
                              enemies>>
    /\ UNCHANGED <<currentWaveNumber, buildMode, selectedTower, towers,
                   projectiles, waveManager, waveStatus, threw, tickCount,
                   afterEnd>>

Next ==
    \/ BuildTurretButton
    \/ CanvasPointerDown
    \/ UpgradeButton
    \/ CloseUpgradeButton
    \/ StartWaveButton
    \/ \E dt \in DtSet : AnimateBegin(dt)
    \/ TowerStep
    \/ ProjectileStep
    \/ EnemyStep

Spec == Init /\ [][Next]_vars

\* ------------------------------------------- the WaveManager driven directly

\* A WaveManager on its own, its methods called in any order by a caller that
\* owns the enemies array: startNextWave() at any time, update(dt) with one
\* constant dt, and the removal of an enemy from the array.  deltaTime holds
\* the constant dt and tickCount counts the update calls of the active wave.

\* The doubles 0.1 and 1.0.
DoubleTenth == [neg |-> FALSE, hi |-> 26843545, lo |-> 161061274]

DoubleOne == [neg |-> FALSE, hi |-> Limb, lo |-> 0]

\* The managers driven directly: one wave of one group of three enemies
\* 1.0 s apart with dt = 0.1 s, in exact frames and in doubles; two waves of
\* two groups and of one group; one wave of two groups with dt = 1 s, as long
\* as the second group's interval; and one wave whose first and last groups
\* name a type that ENEMY_CONFIGS does not have.
DirectCases ==
    { [number |-> "frames", dt |-> 6,
       configs |-> << << [type |-> "standard", count |-> 3,
                          interval |-> 60] >> >>],
      [number |-> "double", dt |-> DoubleTenth,
       configs |-> << << [type |-> "standard", count |-> 3,
                          interval |-> DoubleOne] >> >>],
      [number |-> "frames", dt |-> 6,
       configs |-> << << [type |-> "fast", count |-> 2, interval |-> 30],
                         [type |-> "tough", count |-> 1, interval |-> 60] >>,
                      << [type |-> "standard", count |-> 1,
                          interval |-> 60] >> >>],
      [number |-> "frames", dt |-> 60,
       configs |-> << << [type |-> "fast", count |-> 1, interval |-> 90],
                         [type |-> "standard", count |-> 1,
                          interval |-> 60] >> >>],
      [number |-> "frames", dt |-> 6,
       configs |-> << << [type |-> "boss", count |-> 2, interval |-> 12],
                         [type |-> "fast", count |-> 1, interval |-> 30],
                         [type |-> "boss", count |-> 1,
                          interval |-> 12] >> >>] }

InitWaveManager ==
    /\ gameStatus = "IDLE"
    /\ playerGold = StartGold
    /\ playerLives = StartLives
    /\ currentWaveNumber = 0
    /\ buildMode = FALSE
    /\ selectedTower = 0
    /\ towers = <<>>
    /\ projectiles = <<>>
    /\ enemies = <<>>
    /\ enemyObjects = <<>>
    /\ \E c \in DirectCases :
           /\ waveManager = NewWaveManager(c.number, c.configs)
           /\ deltaTime = c.dt
    /\ pc = "idle"
    /\ i = 0
    /\ waveStatus = "null"
    /\ threw = FALSE
    /\ tickCount = 0
    /\ afterEnd = "none"
    /\ credits = <<>>
    /\ returned = "none"
    /\ spawnedAt = <<>>

\* What a direct call leaves alone: the game around the WaveManager.
gameVars ==
    <<gameStatus, playerGold, playerLives, currentWaveNumber, buildMode,
      selectedTower, towers, projectiles, pc, i, deltaTime, waveStatus,
      threw, afterEnd, credits>>

\* waveManager.startNextWave().
CallStartNextWave ==
    /\ waveManager.currentWaveIndex
           < Len(waveManager.waveConfigs) + MaxRestarts
    /\ LET r == startNextWave(waveManager)
       IN /\ waveManager' = r.wm
          /\ returned' = r.ret
          /\ IF r.ret = "WAVE_STARTED"
             THEN tickCount' = 0 /\ spawnedAt' = <<>>
             ELSE UNCHANGED <<tickCount, spawnedAt>>
    /\ UNCHANGED <<enemies, enemyObjects>>
    /\ UNCHANGED gameVars

\* waveManager.update(dt).
CallUpdate ==
    /\ tickCount < MaxUpdates
    /\ LET r == WaveManagerUpdate(waveManager, deltaTime, Len(enemies))
       IN /\ waveManager' = r.wm
          /\ returned' = r.ret
          /\ tickCount' = IF waveManager.activeWave
                          THEN tickCount + 1 ELSE tickCount
          /\ IF r.spawn = ""
             THEN UNCHANGED <<enemies, enemyObjects, spawnedAt>>
             ELSE /\ enemies' = Append(enemies, Len(enemyObjects) + 1)
                  /\ enemyObjects' =
                         Append(enemyObjects, NewEnemy(ENEMY_CONFIGS[r.spawn]))
                  /\ spawnedAt' = Append(spawnedAt, tickCount + 1)
    /\ UNCHANGED gameVars

\* The caller splices an enemy out of the enemies array.
EnemyLeaves ==
    /\ \E k \in 1..Len(enemies) : enemies' = Splice(enemies, k)
    /\ UNCHANGED <<waveManager, enemyObjects, tickCount, returned, spawnedAt>>
    /\ UNCHANGED gameVars

NextWaveManager ==
    \/ CallStartNextWave
    \/ CallUpdate
    \/ EnemyLeaves

SpecWaveManager == InitWaveManager /\ [][NextWaveManager]_vars

\* ------------------------------------------------ a tower against an enemy

\* The game in the middle of a wave of one standard enemy (health 100), with
\* one tower built at (0, 0, 10) and not yet fired: the enemy has reached
\* (0, 0.1, 7.5) on the segment that passes the tower, in four animate()
\* calls of 5 s since its spawn.  From there animate() runs with steps of
\* 0.1 s and of 1 s (longer than the tower's cooldown of 1 / 1.2 s), and the
\* player may select and upgrade the tower.
CombatDts == {6, 60}

CombatWave == << << [type |-> "standard", count |-> 1, interval |-> 60] >> >>

InitCombat ==
    /\ gameStatus = "WAVE_ACTIVE"
    /\ playerGold = StartGold - BASIC_TOWER_COST
    /\ playerLives = StartLives
    /\ currentWaveNumber = 1
    /\ buildMode = FALSE
    /\ selectedTower = 0
    /\ towers = <<NewTower(<<0, 0, 1200>>, towerConfig)>>
    /\ projectiles = <<>>
    /\ enemies = <<1>>
    /\ enemyObjects =
           << [NewEnemy(ENEMY_CONFIGS.standard) EXCEPT
                  !.currentWaypointIndex = 2,
                  !.position = <<0, 12, 900>>] >>
    /\ waveManager =
           [NewWaveManager("frames", CombatWave) EXCEPT
               !.currentWaveIndex = 0,
               !.activeWave = TRUE,
               !.spawnTimer = CombatWave[1][1].interval - 4 * 300]
    /\ pc = "idle"
    /\ i = 0
    /\ deltaTime = 0
    /\ waveStatus = "null"
    /\ threw = FALSE
    /\ tickCount = 0
    /\ afterEnd = "none"
    /\ credits = <<0>>
    /\ returned = "none"
    /\ spawnedAt = <<>>

NextCombat ==
    \/ CanvasPointerDown
    \/ UpgradeButton
    \/ \E dt \in CombatDts : AnimateBegin(dt)
    \/ TowerStep
    \/ ProjectileStep
    \/ EnemyStep

SpecCombat == InitCombat /\ [][NextCombat]_vars

\* ------------------------------------------------- two towers, two enemies

\* The game later in a wave of two fast enemies, its gold spent on two
\* towers.  The first enemy, unhurt, is at (14.25, 0.1, 15), 0.75 short of
\* the end of the path; the tower at (10, 0, 10) has just been built and
\* upgraded to level 2 and has not fired (at level 1 that enemy was out of
\* its range).  The second enemy is at (3, 0.1, 15); the tower at (0, 0, 10),
\* built a little earlier, has hit it once (health 50 -> 20), holds it as
\* currentTarget and has 2 frames of cooldown left.  From there animate()
\* runs with steps of 0.1 s and of 1 s.
LateWave == << << [type |-> "fast", count |-> 2, interval |-> 225] >> >>

InitLateGame ==
    /\ gameStatus = "WAVE_ACTIVE"
    /\ playerGold = 0
    /\ playerLives = StartLives
    /\ currentWaveNumber = 1
    /\ buildMode = FALSE
    /\ selectedTower = 0
    /\ towers =
           << upgrade(NewTower(<<1200, 0, 1200>>, towerConfig)),
              [NewTower(<<0, 0, 1200>>, towerConfig) EXCEPT
                  !.currentTarget = 2, !.fireCooldown = 2] >>
    /\ projectiles = <<>>
    /\ enemies = <<1, 2>>
    /\ enemyObjects =
           << [NewEnemy(ENEMY_CONFIGS.fast) EXCEPT
                  !.currentWaypointIndex = 3,
                  !.position = <<1710, 12, 1800>>],
              [takeDamage(NewEnemy(ENEMY_CONFIGS.fast), towerConfig.damage)
                  EXCEPT !.currentWaypointIndex = 3,
                         !.position = <<360, 12, 1800>>] >>
    /\ waveManager =
           [NewWaveManager("frames", LateWave) EXCEPT
               !.currentWaveIndex = 0,
               !.activeWave = TRUE,
               !.spawnTimer = LateWave[1][1].interval - 111 * 6]
    /\ pc = "idle"
    /\ i = 0
    /\ deltaTime = 0
    /\ waveStatus = "null"
    /\ threw = FALSE
    /\ tickCount = 0
    /\ afterEnd = "none"
    /\ credits = <<0, 0>>
    /\ returned = "none"
    /\ spawnedAt = <<>>

NextLateGame ==
    \/ \E dt \in CombatDts : AnimateBegin(dt)
    \/ TowerStep
    \/ ProjectileStep
    \/ EnemyStep

SpecLateGame == InitLateGame /\ [][NextLateGame]_vars

\* ------------------------------------------------ a tower driven directly

\* A Tower on its own in the middle of an animate() call, at the towers loop,
\* its methods called on the enemies array as the game left it:
\* findTarget(enemies) once, then update(deltaTime, enemies).  The wave had a
\* fast enemy, a standard one and two more fast ones.  The first fast enemy
\* (1) reached the end of the path and was disposed of; the enemies array
\* holds the standard enemy (2) and the two fast ones (3 ahead of 4) at
\* points of the path: (0, 0.1, 2) short of the range of the tower at
\* (0, 0, 10), (0, 0.1, 12.5) and (2.5, 0.1, 15) in range, (7.5, 0.1, 15)
\* past it.  An enemy of the array may be dead: then it was killed in a call
\* that the projectile aimed at enemy 1 ended with a TypeError before the
\* enemies loop, and that projectile is still in flight.
TargetingWave ==
    << << [type |-> "fast", count |-> 1, interval |-> 60],
          [type |-> "standard", count |-> 1, interval |-> 60],
          [type |-> "fast", count |-> 2, interval |-> 60] >> >>

TargetingPoints ==
    << [currentWaypointIndex |-> 2, position |-> <<0, 12, 240>>],
       [currentWaypointIndex |-> 2, position |-> <<0, 12, 1500>>],
       [currentWaypointIndex |-> 3, position |-> <<300, 12, 1800>>],
       [currentWaypointIndex |-> 3, position |-> <<900, 12, 1800>>] >>

\* An enemy of the given type at a point of the path, killed by the tower's
\* projectiles or unhurt.
EnemyAt(type, point, dead) ==
    LET e == NewEnemy(ENEMY_CONFIGS[type])
    IN [e EXCEPT
           !.currentWaypointIndex = TargetingPoints[point].currentWaypointIndex,
           !.position = TargetingPoints[point].position,
           !.health = IF dead
                      THEN @ - towerConfig.damage
                                   * (@ \div towerConfig.damage + 1)
                      ELSE @]

InitTargeting ==
    \E dt \in CombatDts, target \in {0, 2, 3, 4}, cooldown \in {0, 20},
       a \in 1..4, b \in 1..4, c \in 1..4, dead \in SUBSET {2, 3, 4} :
        /\ b > c
        /\ (target # 0 \/ dead # {}) => cooldown = 20
        /\ gameStatus = "WAVE_ACTIVE"
        /\ playerGold = StartGold - BASIC_TOWER_COST
        /\ playerLives = StartLives - 1
        /\ currentWaveNumber = 1
        /\ buildMode = FALSE
        /\ selectedTower = 0
        /\ towers = << [NewTower(<<0, 0, 1200>>, towerConfig) EXCEPT
                           !.currentTarget = target,
                           !.fireCooldown = cooldown] >>
        /\ projectiles =
               IF dead = {} THEN <<>>
               ELSE << [NewProjectile(NewTower(<<0, 0, 1200>>, towerConfig), 1)
                           EXCEPT !.position = <<1500, 12, 1800>>] >>
        /\ enemies = <<2, 3, 4>>
        /\ enemyObjects =
               << EnemyDispose([NewEnemy(ENEMY_CONFIGS.fast) EXCEPT
                                   !.currentWaypointIndex = Len(waypoints),
                                   !.position = waypoints[Len(waypoints)]]),
                  EnemyAt("standard", a, 2 \in dead),
                  EnemyAt("fast", b, 3 \in dead),
                  EnemyAt("fast", c, 4 \in dead) >>
        /\ waveManager =
               [NewWaveManager("frames", TargetingWave) EXCEPT
                   !.currentWaveIndex = 0,
                   !.activeWave = TRUE,
                   !.spawnTimer = 0 - 600]
        /\ pc = "towers"
        /\ i = 1
        /\ deltaTime = dt
        /\ waveStatus = "null"
        /\ threw = FALSE
        /\ tickCount = 1
        /\ afterEnd = "none"
        /\ credits = <<0, 0, 0, 0>>
        /\ returned = "none"
        /\ spawnedAt = <<>>

\* towers[i].findTarget(enemies), called once before the update.
CallFindTarget ==
    /\ pc = "towers"
    /\ returned = "none"
    /\ returned' = "findTarget"
    /\ towers' = [towers EXCEPT
                     ![i].currentTarget =
                         findTarget(towers[i], enemies, enemyObjects)]
    /\ UNCHANGED <<gameStatus, playerGold, playerLives, currentWaveNumber,
                   buildMode, selectedTower, projectiles, enemies,
                   enemyObjects, waveManager, pc, i, deltaTime, waveStatus,
                   threw, tickCount, afterEnd, credits, spawnedAt>>

NextTargeting ==
    \/ CallFindTarget
    \/ TowerStep

SpecTargeting == InitTargeting /\ [][NextTargeting]_vars

\* ------------------------------------------------- the upgrade command

\* The game before a wave with two towers built, and the player selecting a
\* tower, upgrading it and closing the panel.  playerGold is drawn from
\* balances up to and around the prices of one, two, three and four
\* upgrades of one tower (90, 252, 543 and 1067 in all).
UpgradeGolds == {0, 89, 90, 251, 252, 542, 543, 600, 1066, 1067}

InitUpgrade ==
    /\ gameStatus = "IDLE"
    /\ playerGold \in UpgradeGolds
    /\ playerLives = StartLives
    /\ currentWaveNumber = 0
    /\ buildMode = FALSE
    /\ selectedTower = 0
    /\ towers = << NewTower(<<0, 0, 1200>>, towerConfig),
                   NewTower(<<1200, 0, 1200>>, towerConfig) >>
    /\ projectiles = <<>>
    /\ enemies = <<>>
    /\ enemyObjects = <<>>
    /\ \E configs \in WaveTemplates :
           waveManager = NewWaveManager("frames", configs)
    /\ pc = "idle"
    /\ i = 0
    /\ deltaTime = 0
    /\ waveStatus = "null"
    /\ threw = FALSE
    /\ tickCount = 0
    /\ afterEnd = "none"
    /\ credits = <<>>
    /\ returned = "none"
    /\ spawnedAt = <<>>

NextUpgrade ==
    \/ CanvasPointerDown
    \/ UpgradeButton
    \/ CloseUpgradeButton

SpecUpgrade == InitUpgrade /\ [][NextUpgrade]_vars

\* ------------------------------------------------- ticks without an end

\* The late game above with animate() called for ever: requestAnimationFrame
\* keeps scheduling it (main.js line 251, before anything can throw), and a
\* call, once begun, runs to its end.  The calls are not counted.  spawnTimer
\* is read only in the test spawnTimer <= 0 of a non-empty queue (Enemy.js
\* line 211): once it is <= 0 with the queue empty, the further subtractions
\* change no test until startNextWave resets it, and it is kept as it is.
AnimateBeginForever(dt) ==
    /\ pc = "idle"
    /\ UNCHANGED callVars
    /\ UNCHANGED tickCount
    /\ afterEnd' = IF GameEnded THEN "animate" ELSE afterEnd
    /\ IF GameEnded
       THEN UNCHANGED <<gameStatus, waveManager, enemies, enemyObjects,
                        credits, pc, i, deltaTime, waveStatus, threw>>
       ELSE LET r == WaveManagerUpdate(waveManager, dt, Len(enemies))
                en == IF r.spawn = "" THEN enemies
                      ELSE Append(enemies, Len(enemyObjects) + 1)
            IN /\ waveManager' =
                      IF /\ Len(waveManager.enemiesToSpawn) = 0
                         /\ waveManager.spawnTimer <= 0
                      THEN [r.wm EXCEPT
                               !.spawnTimer = waveManager.spawnTimer]
                      ELSE r.wm
               /\ waveStatus' = r.ret
               /\ enemies' = en
               /\ IF r.spawn = ""
                  THEN UNCHANGED <<enemyObjects, credits>>
                  ELSE /\ enemyObjects' =
                              Append(enemyObjects,
                                     NewEnemy(ENEMY_CONFIGS[r.spawn]))
                       /\ credits' = Append(credits, 0)
               /\ gameStatus' = IF r.ret = "WAVE_COMPLETE"
                                THEN "WAVE_COMPLETE" ELSE gameStatus
               /\ threw' = FALSE
               /\ pc' = AfterTowers(1, towers, projectiles, en)[1]
               /\ i' = AfterTowers(1, towers, projectiles, en)[2]
               /\ deltaTime' = IF pc' = "idle" THEN 0 ELSE dt
    /\ UNCHANGED <<playerGold, playerLives, currentWaveNumber, buildMode,
                   selectedTower, towers, projectiles>>

NextForever ==
    \/ \E dt \in CombatDts : AnimateBeginForever(dt)
    \/ TowerStep
    \/ ProjectileStep
    \/ EnemyStep

SpecForever ==
    /\ InitLateGame
    /\ [][NextForever]_vars
    /\ WF_vars(\E dt \in CombatDts : AnimateBeginForever(dt))
    /\ WF_vars(TowerStep)
    /\ WF_vars(ProjectileStep)
    /\ WF_vars(EnemyStep)

\* ----------------------------------------------------------------- claims

\* C1: GAME_OVER and GAME_WON are absorbing: once gameStatus is GAME_OVER or
\* GAME_WON, no animate() call and no build, pointerdown, upgrade, close or
\* start-wave handler changes gameStatus, playerGold, playerLives,
\* currentWaveNumber, the WaveManager, or the enemies, towers and projectiles.
AbsorbingEnd ==
    [][(gameStatus = "GAME_OVER" \/ gameStatus = "GAME_WON") =>
           UNCHANGED <<gameStatus, playerGold, playerLives, currentWaveNumber,
                       waveManager, enemies, enemyObjects, towers,
                       projectiles>>]_vars

\* The upgrade button was clicked after GAME_OVER, on a selected tower whose
\* upgrade the gold would pay.
UpgradeAfterGameOver ==
    /\ gameStatus = "GAME_OVER"
    /\ afterEnd = "upgradeButton"
    /\ selectedTower # 0
    /\ playerGold >= (BASIC_TOWER_COST * 18) \div 10

\* C2: every change of gameStatus is IDLE or WAVE_COMPLETE -> WAVE_ACTIVE
\* with startNextWave starting the next wave of the template, IDLE or
\* WAVE_COMPLETE -> GAME_WON with the template exhausted, WAVE_ACTIVE ->
\* WAVE_COMPLETE with WaveManager.update returning WAVE_COMPLETE, or
\* WAVE_ACTIVE -> GAME_OVER with playerLives reaching 0.
StatusTransitions ==
    [][gameStatus' # gameStatus =>
           \/ /\ gameStatus \in {"IDLE", "WAVE_COMPLETE"}
              /\ gameStatus' = "WAVE_ACTIVE"
              /\ ~waveManager.activeWave /\ waveManager'.activeWave
              /\ waveManager'.currentWaveIndex =
                     waveManager.currentWaveIndex + 1
              /\ waveManager'.currentWaveIndex < Len(waveManager.waveConfigs)
           \/ /\ gameStatus \in {"IDLE", "WAVE_COMPLETE"}
              /\ gameStatus' = "GAME_WON"
              /\ waveManager.currentWaveIndex + 1 >=
                     Len(waveManager.waveConfigs)
           \/ /\ gameStatus = "WAVE_ACTIVE"
              /\ gameStatus' = "WAVE_COMPLETE"
              /\ pc = "idle" /\ waveStatus' = "WAVE_COMPLETE"
           \/ /\ gameStatus = "WAVE_ACTIVE"
              /\ gameStatus' = "GAME_OVER"
              /\ playerLives > 0 /\ playerLives' = 0]_vars

\* The second wave is running: the status went IDLE, WAVE_ACTIVE,
\* WAVE_COMPLETE, WAVE_ACTIVE.
SecondWaveActive == gameStatus = "WAVE_ACTIVE" /\ currentWaveNumber = 2

\* The enemy with identity id is in the enemies array.
InEnemies(id) == \E k \in 1..Len(enemies) : enemies[k] = id

\* C3: when the target of the projectile that projectiles[i].update runs on
\* is no longer in the enemies array (it died or it reached the end of the
\* path), the call returns INVALID_TARGET without an error, the projectile is
\* removed, and no enemy's health changes.
StaleProjectileIsInvalid ==
    [][(pc = "projectiles" /\ ~InEnemies(projectiles[i].targetEnemy)) =>
           /\ ~threw'
           /\ projectiles' = Splice(projectiles, i)
           /\ enemyObjects' = enemyObjects]_vars

\* C4: when a tower's update reaches its attack decision, its currentTarget
\* is null or an enemy that is not dead and whose squared distance to the
\* tower is at most the squared range of the tower's level.
TargetValidAtAttackDecision ==
    [][(pc = "towers" /\ ~threw') =>
           LET t == towers'[i]
           IN \/ t.currentTarget = 0
              \/ /\ enemyObjects[t.currentTarget].health > 0
                 /\ DistanceToSquared(t.meshPosition,
                                      enemyObjects[t.currentTarget].position)
                        <= RangeSqAt(t.baseRange, t.level)]_vars

\* The towers loop has run and a tower fired in it at a target that is not
\* the first enemy of the array.
FiredAtLaterEnemy ==
    /\ pc = "projectiles"
    /\ \E k \in 1..Len(towers) :
           /\ towers[k].fireCooldown = 600 \div towers[k].fireRate
           /\ towers[k].currentTarget # 0
           /\ towers[k].currentTarget # enemies[1]

\* C5: when the currentTarget of the tower that towers[i].update runs on is
\* no longer in the enemies array, the call ends without an error and leaves
\* currentTarget null or an enemy of the array.
VanishedTargetIsDropped ==
    [][(/\ pc = "towers"
        /\ towers[i].currentTarget # 0
        /\ ~InEnemies(towers[i].currentTarget)) =>
           /\ ~threw'
           /\ \/ towers'[i].currentTarget = 0
              \/ \E k \in 1..Len(enemies) :
                     enemies[k] = towers'[i].currentTarget]_vars

\* C6 as claimed: between animate() calls every enemy whose health is <= 0
\* has been credited exactly once, and no other enemy has been credited.
EveryDeathCreditedOnce ==
    pc = "idle" =>
        \A id \in 1..Len(enemyObjects) :
            credits[id] = IF enemyObjects[id].health <= 0 THEN 1 ELSE 0

\* C6: no enemy is credited more than once and only an enemy whose health is
\* <= 0 is credited; a pass of the enemies loop on an enemy whose health is
\* <= 0 adds exactly its value to playerGold, credits it and removes it from
\* the array, a pass on any other enemy credits nothing, and no other step
\* adds gold.
DeathCreditedOnReap ==
    /\ [](\A id \in 1..Len(enemyObjects) :
              /\ credits[id] <= 1
              /\ credits[id] = 1 => enemyObjects[id].health <= 0)
    /\ [][IF pc = "enemies"
          THEN LET id == enemies[i]
               IN IF enemyObjects[id].health <= 0
                  THEN /\ playerGold' = playerGold + enemyObjects[id].value
                       /\ credits' = [credits EXCEPT ![id] = @ + 1]
                       /\ \A k \in 1..Len(enemies') : enemies'[k] # id
                  ELSE playerGold' = playerGold /\ credits' = credits
          ELSE /\ playerGold' <= playerGold
               /\ \A id \in 1..Len(credits) : credits'[id] = credits[id]]_vars

\* An enemy was killed, credited and removed from the array.
EnemyCredited ==
    \E id \in 1..Len(enemyObjects) :
        credits[id] = 1 /\ ~InEnemies(id) /\ ~enemyObjects[id].mesh

\* C7: 0 <= playerLives <= the initial lives, gameStatus is GAME_OVER exactly
\* when playerLives is 0, playerLives never increases, and it changes only in
\* a pass of the enemies loop whose enemy reaches the end of the path with
\* health > 0, which takes exactly one life.
LivesBounded ==
    /\ [](/\ 0 <= playerLives /\ playerLives <= StartLives
          /\ gameStatus = "GAME_OVER" <=> playerLives = 0)
    /\ [][IF /\ pc = "enemies"
             /\ enemyObjects'[enemies[i]].health > 0
             /\ enemyObjects'[enemies[i]].currentWaypointIndex >=
                    Len(waypoints)
          THEN playerLives' = playerLives - 1
          ELSE playerLives' = playerLives]_vars

\* The last life was lost.
LastLifeLost ==
    /\ gameStatus = "GAME_OVER"
    /\ playerLives = 0
    /\ \E k \in 1..Len(enemies) :
           enemyObjects[enemies[k]].currentWaypointIndex >= Len(waypoints)

\* C8: the pass of the enemies loop that takes the last life ends animate():
\* it leaves playerGold, the towers, the projectiles, the credits and every
\* other enemy as they were, and once gameStatus is GAME_OVER no step changes
\* an enemy, a tower, a projectile, playerGold or playerLives.
GameOverShortCircuits ==
    /\ [][(gameStatus # "GAME_OVER" /\ gameStatus' = "GAME_OVER") =>
              /\ pc = "enemies" /\ pc' = "idle"
              /\ playerLives' = 0 /\ playerGold' = playerGold
              /\ UNCHANGED <<towers, projectiles, enemies, credits>>
              /\ \A k \in 1..Len(enemies) :
                     k # i => enemyObjects'[enemies[k]] =
                                  enemyObjects[enemies[k]]]_vars
    /\ [][gameStatus = "GAME_OVER" =>
              UNCHANGED <<pc, enemies, enemyObjects, towers, projectiles,
                          credits, playerGold, playerLives>>]_vars

\* animate() was called after GAME_OVER, which was entered by an enemy that
\* is not the first of the array: the enemies before it were not visited.
TickAfterShortCircuit ==
    /\ gameStatus = "GAME_OVER"
    /\ afterEnd = "animate"
    /\ \E k \in 2..Len(enemies) : hasReachedEnd(enemyObjects[enemies[k]])

\* WaveManager.update(dt) on wm gets as far as its completion check: the wave
\* is active and the spawn step does not return on an unknown enemy type.
ReachesCompletionCheck(wm, dt) ==
    /\ wm.activeWave
    /\ ~(/\ wm.spawnTimer - dt <= 0
         /\ Len(wm.enemiesToSpawn) > 0
         /\ wm.enemiesToSpawn[1].type \notin DOMAIN ENEMY_CONFIGS)

\* C9: a WaveManager.update that gets to its completion check returns
\* WAVE_COMPLETE exactly when, after its spawn step, enemiesToSpawn and the
\* enemies array are both empty, and then it sets activeWave to false; an
\* update that does not get there returns null; activeWave becomes true
\* again only when startNextWave moves on to the next wave, so a started
\* wave is signalled complete at most once.
WaveCompleteSignal ==
    /\ [][\A dt \in DtSet :
              (pc = "idle" /\ ~GameEnded /\ AnimateBegin(dt)) =>
                  /\ waveStatus' = "WAVE_COMPLETE" <=>
                         /\ ReachesCompletionCheck(waveManager, dt)
                         /\ Len(waveManager'.enemiesToSpawn) = 0
                         /\ Len(enemies') = 0
                  /\ waveStatus' = "WAVE_COMPLETE" =>
                         waveManager.activeWave /\ ~waveManager'.activeWave
                  /\ waveStatus' # "WAVE_COMPLETE" =>
                         waveManager'.activeWave = waveManager.activeWave]_vars
    /\ [][(~waveManager.activeWave /\ waveManager'.activeWave) =>
              waveManager'.currentWaveIndex =
                  waveManager.currentWaveIndex + 1]_vars

\* The latest animate() call signalled the end of a wave that had spawned
\* all three groups of its template.
ThreeGroupWaveComplete ==
    /\ waveStatus = "WAVE_COMPLETE"
    /\ ~waveManager.activeWave
    /\ Len(enemyObjects) = 3
    /\ Len(enemies) = 0

\* The gold paid for the upgrades of a tower of this build cost that is at
\* this level: floor(cost * 1.8^l) for every level l it left.
RECURSIVE UpgradesPaid(_, _)
UpgradesPaid(cost, level) ==
    IF level <= 1 THEN 0
    ELSE (cost * Pow(18, level - 1)) \div Pow(10, level - 1)
         + UpgradesPaid(cost, level - 1)

\* The gold spent on towers[1..k]: build cost and upgrades.
RECURSIVE TowerSpend(_)
TowerSpend(k) ==
    IF k = 0 THEN 0
    ELSE towers[k].cost + UpgradesPaid(towers[k].cost, towers[k].level)
         + TowerSpend(k - 1)

\* The values of the credited enemies among identities 1..k.
RECURSIVE RewardSum(_)
RewardSum(k) ==
    IF k = 0 THEN 0
    ELSE credits[k] * enemyObjects[k].value + RewardSum(k - 1)

\* C10: playerGold is the starting gold, less the build cost of every tower
\* built, less the upgrade cost paid at each upgrade, plus the value of every
\* credited enemy, and it is never negative.
GoldAccounting ==
    /\ playerGold =
           StartGold - TowerSpend(Len(towers)) + RewardSum(Len(credits))
    /\ playerGold >= 0

\* A tower was built and upgraded and an enemy was credited.
BuiltUpgradedAndCredited ==
    /\ \E k \in 1..Len(towers) : towers[k].level = 2
    /\ \E id \in 1..Len(credits) : credits[id] = 1
    /\ pc = "idle"

StartWhileActiveIsNoOp ==
    [][(CallStartNextWave /\ waveManager.activeWave)
          => (waveManager' = waveManager /\ returned' = "WAVE_ACTIVE")]_vars

\* startNextWave() has just been rejected in the middle of a wave: an enemy
\* of the first group is out and the group still has enemies to spawn.
StartRejectedMidWave ==
    /\ returned = "WAVE_ACTIVE"
    /\ waveManager.activeWave
    /\ Len(spawnedAt) > 0
    /\ Len(waveManager.enemiesToSpawn) > 0
    /\ waveManager.enemiesToSpawn[1].count
           < waveManager.waveConfigs[waveManager.currentWaveIndex + 1][1].count

\* C13: the currentWaypointIndex of an enemy never decreases, never exceeds
\* the number of waypoints, and grows by at most 1 in a tick whatever dt and
\* speed are: it changes only in the pass of the enemies loop over that
\* enemy, by 1, and the loop then moves on to a lower index, so that no
\* enemy is passed twice in one animate() call.
WaypointIndexMonotone ==
    [][\A id \in 1..Len(enemyObjects) :
          LET before == enemyObjects[id].currentWaypointIndex
              after == enemyObjects'[id].currentWaypointIndex
          IN /\ before <= after
             /\ after <= before + 1
             /\ after <= Len(waypoints)
             /\ after # before
                  => /\ pc = "enemies"
                     /\ enemies[i] = id
                     /\ pc' = "enemies" => i' < i]_vars

\* A fast enemy has passed every waypoint and the running tick is one of
\* 5 s, a step of 15 for it: as long as a whole segment, and longer than any
\* distance an enemy has left to its next waypoint.
CrossedPathInLongSteps ==
    /\ deltaTime = 300
    /\ pc = "enemies"
    /\ \E id \in 1..Len(enemyObjects) :
           /\ enemyObjects[id].speed = 6
           /\ enemyObjects[id].currentWaypointIndex = Len(waypoints)

\* The manager has one wave of one group.
OneGroupWave ==
    Len(waveManager.waveConfigs) = 1 /\ Len(waveManager.waveConfigs[1]) = 1

\* The spawns of a started one-group wave of n enemies follow the schedule
\* "tick 1, then every gap ticks": the j-th spawn is out exactly from tick
\* 1 + (j - 1) * gap on, at most n enemies are spawned, and the spawn queue
\* is empty exactly from the n-th spawn on.
SpawnedOnSchedule(gap) ==
    LET n == waveManager.waveConfigs[1][1].count
    IN /\ Len(spawnedAt) <= n
       /\ \A j \in 1..n :
              /\ 1 + (j - 1) * gap <= tickCount <=> Len(spawnedAt) >= j
              /\ Len(spawnedAt) >= j => spawnedAt[j] = 1 + (j - 1) * gap
       /\ waveManager.currentWaveIndex >= 0
            => (Len(waveManager.enemiesToSpawn) = 0 <=> Len(spawnedAt) = n)

\* C14 as stated: a wave of one group {count n, interval T} ticked with a
\* constant dt that divides T (n = 3, T = 1.0, dt = 0.1, 30 ticks) spawns n
\* enemies in all, the first on the first tick after the start, consecutive
\* ones exactly T / dt = 10 ticks apart, and its queue becomes empty on the
\* tick of the n-th spawn.
SpawnsExactlyIntervalApart == OneGroupWave => SpawnedOnSchedule(10)

\* C14, amended: as above, but consecutive spawns are T / dt ticks apart only
\* where the timer is subtracted exactly; in the doubles of the program
\* 1.0 - 10 * 0.1 leaves a positive spawnTimer and each later spawn comes a
\* tick late, 11 ticks after the one before (ticks 1, 12, 23).
SpawnsIntervalOrTickLate ==
    OneGroupWave =>
        SpawnedOnSchedule(IF waveManager.number = "frames" THEN 10 ELSE 11)

\* The third and last enemy of the group is out, on tick 23 of the doubles,
\* and the queue is empty.
ThirdSpawnOnTick23 ==
    /\ OneGroupWave
    /\ waveManager.number = "double"
    /\ spawnedAt = <<1, 12, 23>>
    /\ Len(waveManager.enemiesToSpawn) = 0
    /\ tickCount = 23

\* C15: a hit takes from its target exactly the damage the tower had when it
\* fired the projectile.  A projectile is created only by the pass of the
\* towers loop over its tower, with that tower's damage; it keeps its damage
\* in flight; the health of an enemy changes only in the pass of the
\* projectiles loop over a projectile aimed at it, by that projectile's
\* damage, and the projectile is then removed.  Against a tower of level 1
\* (damage 30) an enemy of health 100 has health 70 after the first hit, is
\* dead after exactly 4 hits and not after 3, and the gold then rises by
\* exactly its value.
HitsTakeFiringDamage ==
    /\ [](\A id \in 1..Len(enemyObjects) :
             (\A k \in 1..Len(towers) : towers[k].level = 1)
             => /\ \E hits \in 0..4 :
                       /\ enemyObjects[id].health = 10000 - hits * 3000
                       /\ enemyObjects[id].health <= 0 <=> hits = 4
                       /\ credits[id] = 1 => hits = 4
                       /\ (hits = 4 /\ pc = "idle") => credits[id] = 1
                /\ playerGold = StartGold - BASIC_TOWER_COST
                                    + credits[id] * enemyObjects[id].value)
    /\ [][ /\ \A id \in 1..Len(enemyObjects) :
                \/ enemyObjects'[id].health = enemyObjects[id].health
                \/ /\ pc = "projectiles"
                   /\ projectiles[i].targetEnemy = id
                   /\ enemyObjects'[id].health =
                          enemyObjects[id].health - projectiles[i].damage
                   /\ projectiles' = Splice(projectiles, i)
           /\ Len(projectiles') > Len(projectiles)
                => /\ pc = "towers"
                   /\ Len(projectiles') = Len(projectiles) + 1
                   /\ projectiles'[Len(projectiles')].damage = towers[i].damage
                   /\ projectiles'[Len(projectiles')].damage
                          = DamageAt(3000, towers[i].level)
           /\ Len(projectiles') = Len(projectiles)
                => \A k \in 1..Len(projectiles) :
                       projectiles'[k].damage = projectiles[k].damage]_vars

\* The enemy of health 100 is dead at health -20, after four hits of the
\* tower of level 1, and its value of 10 has been added to the gold.
DeadAfterFourHits ==
    /\ pc = "idle"
    /\ Len(towers) = 1
    /\ towers[1].level = 1
    /\ enemyObjects[1].health = -2000
    /\ credits[1] = 1
    /\ enemies = <<>>
    /\ playerGold = StartGold - BASIC_TOWER_COST + 10

GameWonIsIdempotent ==
    [][(CallStartNextWave /\ ~waveManager.activeWave
           /\ waveManager.currentWaveIndex + 1 >= Len(waveManager.waveConfigs))
          => /\ returned' = "GAME_WON"
             /\ ~waveManager'.activeWave
             /\ waveManager'.enemiesToSpawn = waveManager.enemiesToSpawn
             /\ returned = "GAME_WON" => waveManager' = waveManager]_vars

\* C18: in every tick that does not end in GameOver, every tower, projectile
\* and enemy that is in its array when its loop begins is updated exactly
\* once.  The towers loop begins at the first tower and each pass goes on to
\* the next until the last; the projectiles loop and the enemies loop begin
\* at the last element and each pass goes on to the one before until the
\* first, and a pass changes or removes nothing below its own index, so that
\* a removal makes the scan neither skip nor repeat an element.
EveryEntityUpdatedOnce ==
    [][ /\ (pc # "towers" /\ pc' = "towers") => i' = 1
        /\ (pc # "projectiles" /\ pc' = "projectiles")
             => i' = Len(projectiles')
        /\ (pc # "enemies" /\ pc' = "enemies") => i' = Len(enemies')
        /\ (pc = "towers" /\ i < Len(towers))
             => (pc' = "towers" /\ i' = i + 1)
        /\ (pc = "projectiles" /\ i > 1)
             => /\ pc' = "projectiles" /\ i' = i - 1
                /\ SubSeq(projectiles', 1, i - 1)
                       = SubSeq(projectiles, 1, i - 1)
        /\ (pc = "enemies" /\ i > 1 /\ gameStatus' # "GAME_OVER")
             => /\ pc' = "enemies" /\ i' = i - 1
                /\ SubSeq(enemies', 1, i - 1) = SubSeq(enemies, 1, i - 1)
      ]_vars

\* C19: Enemy.update(deltaTime) called on an enemy that is dead (health <= 0)
\* or has reached the end of the path (currentWaypointIndex = the number of
\* waypoints) changes neither its position nor its currentWaypointIndex.
TerminalEnemyStaysPut ==
    [][(/\ pc = "enemies"
        /\ \/ enemyObjects[enemies[i]].health <= 0
           \/ enemyObjects[enemies[i]].currentWaypointIndex = Len(waypoints))
          => /\ enemyObjects'[enemies[i]].position
                    = enemyObjects[enemies[i]].position
             /\ enemyObjects'[enemies[i]].currentWaypointIndex
                    = enemyObjects[enemies[i]].currentWaypointIndex]_vars

\* C20: an enemy leaves the enemies array in the tick in which it dies or
\* arrives.  Between animate() calls, unless the game is over, the array
\* holds no enemy of health <= 0 and no enemy whose currentWaypointIndex is
\* the number of waypoints.
NoTerminalEnemyBetweenTicks ==
    (pc = "idle" /\ gameStatus # "GAME_OVER")
        => \A k \in 1..Len(enemies) :
               /\ enemyObjects[enemies[k]].health > 0
               /\ enemyObjects[enemies[k]].currentWaypointIndex
                      < Len(waypoints)

\* ------------------------------------------------------ claims C21 to C29

\* Enemy id is not dead and within the range of tower t.
Qualifies(t, id) ==
    /\ enemyObjects[id].health > 0
    /\ DistanceToSquared(t.meshPosition, enemyObjects[id].position)
           <= t.rangeSq

\* C21: findTarget leaves as currentTarget the first enemy of the enemies
\* array, in array order, that is not dead and in range, and null when the
\* array has no such enemy; a tower whose currentTarget is alive and in range
\* keeps it through its update, and otherwise its update leaves what
\* findTarget finds.
FirstInOrderIsTargeted ==
    [][pc = "towers" =>
           LET t == towers[i]
               cur == t.currentTarget
               q == {k \in 1..Len(enemies) : Qualifies(t, enemies[k])}
               first == IF q = {} THEN 0
                        ELSE enemies[CHOOSE k \in q : \A j \in q : k <= j]
           IN IF returned' = "findTarget" /\ returned = "none"
              THEN towers'[i].currentTarget = first
              ELSE IF cur # 0 /\ Qualifies(t, cur)
              THEN towers'[i].currentTarget = cur
              ELSE ~threw' => towers'[i].currentTarget = first]_vars

\* findTarget has just been called and left as currentTarget an enemy of the
\* array while an enemy later in the array is alive, in range and strictly
\* nearer to the tower.
FarFirstEnemyTargeted ==
    /\ returned = "findTarget"
    /\ pc = "towers"
    /\ \E a \in 1..Len(enemies) :
           /\ towers[i].currentTarget = enemies[a]
           /\ \E b \in (a + 1)..Len(enemies) :
                  /\ Qualifies(towers[i], enemies[b])
                  /\ DistanceToSquared(towers[i].meshPosition,
                                       enemyObjects[enemies[b]].position)
                         < DistanceToSquared(towers[i].meshPosition,
                                             enemyObjects[enemies[a]].position)

\* C22: a tower's update fires only if, after the cooldown step, fireCooldown
\* is <= 0 and currentTarget is an enemy that is alive and in range; a firing
\* appends exactly one projectile, aimed at that target and carrying the
\* damage of the tower's level, and sets fireCooldown to 1 / fireRate; an
\* update that does not fire adds no projectile and counts a positive
\* fireCooldown down by deltaTime whether or not the tower has a target (a
\* fireCooldown <= 0 is left as it is).  fireCooldown never exceeds
\* 1 / fireRate, so the deltaTime between two firings adds up to at least
\* 1 / fireRate.
FiresOnlyWhenReady ==
    /\ [](\A k \in 1..Len(towers) :
              towers[k].fireCooldown <= 600 \div towers[k].fireRate)
    /\ [][(pc = "towers" /\ returned' = returned) =>
             LET t == towers[i]
                 u == towers'[i]
                 counted == IF t.fireCooldown > 0
                            THEN t.fireCooldown - deltaTime
                            ELSE t.fireCooldown
                 n == Len(projectiles)
             IN IF projectiles' # projectiles
                THEN /\ counted <= 0
                     /\ u.currentTarget # 0
                     /\ Qualifies(u, u.currentTarget)
                     /\ Len(projectiles') = n + 1
                     /\ SubSeq(projectiles', 1, n) = projectiles
                     /\ projectiles'[n + 1].targetEnemy = u.currentTarget
                     /\ projectiles'[n + 1].damage =
                            DamageAt(u.baseDamage, u.level)
                     /\ u.fireCooldown = 600 \div u.fireRate
                ELSE u.fireCooldown = counted]_vars

\* The tower has just fired its second shot: its first projectile has hit the
\* enemy and the second is the only one in flight.
SecondShotFired ==
    /\ pc = "projectiles"
    /\ Len(towers) = 1
    /\ towers[1].fireCooldown = 600 \div towers[1].fireRate
    /\ Len(projectiles) = 1
    /\ enemyObjects[1].health
           = ENEMY_CONFIGS.standard.health - towerConfig.damage

\* C23: a pass of the projectiles loop changes no enemy but the projectile's
\* target, and that one only by takeDamage(damage), once, when the target's
\* health is > 0 and the projectile is within its step or within the hit
\* threshold of it; a projectile that damaged its target, or whose target is
\* null or dead, is removed from the projectiles array in that pass, and a
\* projectile that stays in the array has applied no damage.
DamageOnceThenRemoved ==
    [][pc = "projectiles" =>
           LET p == projectiles[i]
               n == Len(projectiles)
               target == enemyObjects[p.targetEnemy]
               step == p.speed * deltaTime
               hitThreshold == target.size + p.size
               removed ==
                   /\ Len(projectiles') = n - 1
                   /\ \A k \in 1..(n - 1) :
                          projectiles'[k] =
                              projectiles[IF k < i THEN k ELSE k + 1]
               damaged == enemyObjects' # enemyObjects
           IN /\ damaged =>
                     /\ target.health > 0
                     /\ enemyObjects' =
                            [enemyObjects EXCEPT
                                ![p.targetEnemy].health = @ - p.damage]
                     /\ removed
              /\ (p.targetEnemy = 0 \/ target.health <= 0) => removed
              /\ (~threw' /\ p.targetEnemy # 0 /\ target.health > 0) =>
                     (damaged <=>
                          LET distSq == DistanceToSquared(p.position,
                                                          target.position)
                          IN \/ distSq <= step * step
                             \/ distSq <= hitThreshold * hitThreshold)
              /\ ~removed =>
                     /\ ~damaged
                     /\ Len(projectiles') = n]_vars

\* The projectiles loop of this call has emptied the projectiles array, and
\* an enemy of the enemies array has taken the damage of one projectile of
\* a tower that has fired.
HitProjectileRemoved ==
    /\ pc = "enemies"
    /\ projectiles = <<>>
    /\ \E k \in 1..Len(towers), j \in 1..Len(enemies) :
           /\ towers[k].fireCooldown # 0
           /\ \E type \in DOMAIN ENEMY_CONFIGS :
                  enemyObjects[enemies[j]].health
                      = ENEMY_CONFIGS[type].health - towers[k].damage

\* The template of the wave in progress, and the place in it of the group at
\* the front of the spawn queue.
CurrentWave == waveManager.waveConfigs[waveManager.currentWaveIndex + 1]

FrontGroup == Len(CurrentWave) - Len(waveManager.enemiesToSpawn) + 1

\* The spawn queue is a tail of the wave's template, in the template's order,
\* with only the count of its front group lowered.
QueueInOrder ==
    waveManager.activeWave =>
        LET q == waveManager.enemiesToSpawn
        IN /\ Len(q) <= Len(CurrentWave)
           /\ \A k \in 2..Len(q) : q[k] = CurrentWave[FrontGroup + k - 1]
           /\ Len(q) > 0 =>
                  /\ q[1].type = CurrentWave[FrontGroup].type
                  /\ q[1].interval = CurrentWave[FrontGroup].interval
                  /\ q[1].count \in 1..CurrentWave[FrontGroup].count

\* An update that spawns an enemy spawns one of the front group's type and
\* lowers that group's count by one; a group whose count reaches 0 is removed
\* and spawnTimer becomes the interval of the new front group, or, when the
\* queue is left empty or the group has enemies left, the interval of the
\* group spawned from.
SpawnFromFront ==
    (tickCount' = tickCount + 1 /\ Len(enemyObjects') = Len(enemyObjects) + 1)
        => LET q == waveManager.enemiesToSpawn
               front == q[1]
               after == waveManager'.enemiesToSpawn
           IN /\ enemyObjects'[Len(enemyObjects')]
                     = NewEnemy(ENEMY_CONFIGS[front.type])
              /\ IF front.count > 1
                 THEN /\ after = <<[front EXCEPT !.count = @ - 1]>> \o Tail(q)
                      /\ waveManager'.spawnTimer = front.interval
                 ELSE /\ after = Tail(q)
                      /\ waveManager'.spawnTimer =
                             IF Len(after) > 0 THEN after[1].interval
                             ELSE front.interval

\* A group that has spawned nothing yet is at the front of the queue after
\* an earlier group's spawn (times in whole frames).
FreshFront ==
    /\ waveManager.activeWave
    /\ waveManager.number = "frames"
    /\ Len(waveManager.enemiesToSpawn) > 0
    /\ Len(spawnedAt) > 0
    /\ FrontGroup > 1
    /\ waveManager.enemiesToSpawn[1].count = CurrentWave[FrontGroup].count

UpgradeRaisesLevelAndCharges ==
    [][(/\ UpgradeButton
        /\ selectedTower # 0
        /\ gameStatus \notin {"GAME_OVER", "GAME_WON"}) =>
           LET t == towers[selectedTower]
               u == towers'[selectedTower]
               price == (t.cost * Pow(18, t.level)) \div Pow(10, t.level)
               before == (t.cost * Pow(18, t.level - 1))
                             \div Pow(10, t.level - 1)
           IN IF playerGold >= price
              THEN /\ playerGold' = playerGold - price
                   /\ price > before
                   /\ t.cost = 50 =>
                          /\ t.level = 1 => price = 90
                          /\ t.level = 2 => price = 162
                          /\ t.level = 3 => price = 291
                   /\ u.level = t.level + 1
                   /\ u.damage = (t.baseDamage * Pow(12, u.level - 1))
                                     \div Pow(10, u.level - 1)
                   /\ u.rangeSq =
                          MulDiv((t.baseRange * t.baseRange) \div 100,
                                 Pow(121, u.level - 1), Pow(100, u.level - 2))
                   /\ towers' = [towers EXCEPT ![selectedTower] = u]
              ELSE /\ towers' = towers
                   /\ playerGold' = playerGold]_vars

\* A tower has been upgraded three times, to level 4, for 90 + 162 + 291 of
\* the 600 gold the player had.
ThreeUpgradesCharged ==
    /\ playerGold = 600 - (90 + 162 + 291)
    /\ \E k \in 1..Len(towers) : towers[k].level = 4

\* The enemies that the groups of known type of a wave, and of the first n
\* waves, ask for.
RECURSIVE KnownInGroups(_)
KnownInGroups(groups) ==
    IF groups = <<>> THEN 0
    ELSE (IF Head(groups).type \in DOMAIN ENEMY_CONFIGS
          THEN Head(groups).count ELSE 0) + KnownInGroups(Tail(groups))

RECURSIVE KnownInWaves(_, _)
KnownInWaves(waves, n) ==
    IF n = 0 THEN 0
    ELSE KnownInWaves(waves, n - 1) + KnownInGroups(waves[n])

\* C26: an update that finds spawnTimer <= 0 and at the front of the queue a
\* group whose type ENEMY_CONFIGS does not have removes that whole group,
\* spawns nothing, returns null and leaves the wave active; until then the
\* group waits at the front like any other.  The groups behind it are
\* spawned: when update returns WAVE_COMPLETE, every enemy that the groups
\* of known type of the waves started so far ask for has been spawned.
UnknownGroupIsDropped ==
    /\ [](returned = "WAVE_COMPLETE" =>
              Len(enemyObjects)
                  = KnownInWaves(waveManager.waveConfigs,
                                 waveManager.currentWaveIndex + 1))
    /\ [][(/\ tickCount' = tickCount + 1
           /\ waveManager.activeWave
           /\ Len(waveManager.enemiesToSpawn) > 0
           /\ waveManager.enemiesToSpawn[1].type
                  \notin DOMAIN ENEMY_CONFIGS) =>
              /\ enemyObjects' = enemyObjects
              /\ enemies' = enemies
              /\ returned' = "null"
              /\ waveManager'.activeWave
              /\ waveManager'.enemiesToSpawn =
                     IF TimeIsDue(waveManager.number,
                                  waveManager'.spawnTimer)
                     THEN Tail(waveManager.enemiesToSpawn)
                     ELSE waveManager.enemiesToSpawn]_vars

\* The wave whose first and last groups are of the unknown type boss is
\* complete, and its one fast enemy was spawned.
WaveWithUnknownGroupsComplete ==
    /\ returned = "WAVE_COMPLETE"
    /\ ~waveManager.activeWave
    /\ waveManager.waveConfigs[1][1].type = "boss"
    /\ Len(enemyObjects) = 1
    /\ enemyObjects[1].health = ENEMY_CONFIGS.fast.health

\* C27: with animate() called again and again, a wave in progress leads to
\* gameStatus WAVE_COMPLETE or GAME_OVER.
WaveLeadsToCompleteOrGameOver ==
    (gameStatus = "WAVE_ACTIVE")
        ~> (gameStatus = "WAVE_COMPLETE" \/ gameStatus = "GAME_OVER")

\* C28: gameStatus WAVE_ACTIVE implies that the WaveManager's wave is active;
\* a WaveManager whose wave is not active has an empty spawn queue; the
\* enemies array is non-empty only in gameStatus WAVE_ACTIVE or GAME_OVER;
\* and currentWaveNumber never exceeds the number of waves in waveConfigs.
StatusMatchesScheduler ==
    /\ gameStatus = "WAVE_ACTIVE" => waveManager.activeWave
    /\ ~waveManager.activeWave => Len(waveManager.enemiesToSpawn) = 0
    /\ Len(enemies) > 0 => gameStatus \in {"WAVE_ACTIVE", "GAME_OVER"}
    /\ currentWaveNumber <= Len(waveManager.waveConfigs)

\* The game is won after waves that spawned enemies: the wave is not active,
\* the enemies array is empty and currentWaveNumber is the number of waves.
WonAfterLastWave ==
    /\ gameStatus = "GAME_WON"
    /\ Len(enemyObjects) > 0
    /\ ~waveManager.activeWave
    /\ currentWaveNumber = Len(waveManager.waveConfigs)

\* C29: a pass of the enemies loop over an enemy with health <= 0 adds the
\* enemy's value to playerGold, removes the enemy and leaves playerLives and
\* gameStatus alone, also when the enemy's update in that pass took its
\* currentWaypointIndex to the end of the path; playerLives changes only in
\* a pass over an enemy with health > 0 that is at the end of the path.
DeathBeforeArrival ==
    [][pc = "enemies" =>
           LET id == enemies[i]
               e == enemyObjects[id]
           IN /\ e.health <= 0 =>
                     /\ playerGold' = playerGold + e.value
                     /\ playerLives' = playerLives
                     /\ gameStatus' = gameStatus
                     /\ enemies' = Splice(enemies, i)
              /\ playerLives' # playerLives =>
                     /\ e.health > 0
                     /\ enemyObjects'[id].currentWaypointIndex
                            >= Len(waypoints)
                     /\ playerLives' = IF playerLives > 1
                                       THEN playerLives - 1 ELSE 0
                     /\ playerGold' = playerGold]_vars

\* An enemy was killed on its way to the last waypoint and reached it in the
\* same animate() call: it was credited once and no life has been lost.
DeadAtTheEndCredited ==
    /\ playerLives = StartLives
    /\ \E id \in 1..Len(enemyObjects) :
           /\ enemyObjects[id].health <= 0
           /\ enemyObjects[id].currentWaypointIndex = Len(waypoints)
           /\ credits[id] = 1
           /\ ~InEnemies(id)

====
